---- MODULE Spec2Model ----
(***************************************************************************)
(* TestInsight-Agent: the report Normalizer (main.py _normalize_results,   *)
(* analyzer.py Analyzer._stats_from_payload) and the failure Clusterer     *)
(* (main.py _signature, _cluster_failures).                                *)
(*                                                                         *)
(* One run reads one decoded JSON document `raw`, normalises it and        *)
(* clusters the failures.  JSON values are tagged records so that the      *)
(* code's isinstance tests, its `x or default` chains and dict.get can be  *)
(* modelled as the interpreter evaluates them.  Text is a TLA+ string and  *)
(* is transformed character by character.                                  *)
(***************************************************************************)
EXTENDS Integers, Sequences, FiniteSets, TLC

VARIABLES raw, prog, pc, result, stats, clusters, out

vars == <<raw, prog, pc, result, stats, clusters, out>>

(***************************************************************************)
(* Bounds of the model.                                                    *)
(***************************************************************************)
MaxCount == 2
MaxSuites == 3
MaxTreeSpecs == 2
MaxList == 3
MaxResults == 2
MaxFailures == 3
MaxHinted == 2

(***************************************************************************)
(* JSON values as Python sees them.                                        *)
(***************************************************************************)
None == [t |-> "null"]
Num(n) == [t |-> "int", v |-> n]
Str(s) == [t |-> "str", v |-> s]
Bool(b) == [t |-> "bool", v |-> b]
List(s) == [t |-> "list", v |-> s]
Dict(f) == [t |-> "dict", v |-> f]
EmptyDict == Dict(<<>>)

isDict(x) == x.t = "dict"
isList(x) == x.t = "list"

\* bool(x): Python truthiness
truthy(x) ==
    CASE x.t = "null" -> FALSE
      [] x.t = "int" -> x.v # 0
      [] x.t = "str" -> x.v # ""
      [] x.t = "bool" -> x.v
      [] x.t = "list" -> x.v # <<>>
      [] x.t = "dict" -> DOMAIN x.v # {}

\* x or y
or(x, y) == IF truthy(x) THEN x ELSE y

\* d.get(k): None when the key is absent
get(d, k) == IF k \in DOMAIN d.v THEN d.v[k] ELSE None

\* d.get(k, default)
getDefault(d, k, default) == IF k \in DOMAIN d.v THEN d.v[k] ELSE default

\* int(x) of an int or bool (the only arguments the modelled documents give it)
int(x) ==
    CASE x.t = "int" -> x.v
      [] x.t = "bool" -> IF x.v THEN 1 ELSE 0

\* the elements iterated by `for e in (x or [])`
items(x) == IF truthy(x) THEN x.v ELSE <<>>

max(a, b) == IF a >= b THEN a ELSE b

RECURSIVE Concat(_)
Concat(ss) == IF ss = <<>> THEN <<>> ELSE Head(ss) \o Concat(Tail(ss))

RECURSIVE Sum(_)
Sum(ns) == IF ns = <<>> THEN 0 ELSE Head(ns) + Sum(Tail(ns))

(***************************************************************************)
(* Text: str.lower, str.strip, str.replace, "\n".join                      *)
(***************************************************************************)
Ch(s, i) == SubSeq(s, i, i)
UpperCase == "ABCDEFGHIJKLMNOPQRSTUVWXYZ"
LowerCase == "abcdefghijklmnopqrstuvwxyz"
Whitespace == {" ", "\n", "\t"}

UpperLetters == {Ch(UpperCase, i) : i \in 1..Len(UpperCase)}
LowerOf == [c \in UpperLetters |->
               Ch(LowerCase, CHOOSE i \in 1..Len(UpperCase) : Ch(UpperCase, i) = c)]

lowerCh(c) == IF c \in UpperLetters THEN LowerOf[c] ELSE c

RECURSIVE lowerRange(_, _, _)
\* the characters a..b of s, each lower-cased
lowerRange(s, a, b) ==
    IF a > b THEN ""
    ELSE IF a = b THEN lowerCh(Ch(s, a))
    ELSE lowerRange(s, a, (a + b) \div 2) \o lowerRange(s, (a + b) \div 2 + 1, b)

\* s.lower()
lower(s) == lowerRange(s, 1, Len(s))

\* s.strip()
strip(s) ==
    LET keep == {i \in 1..Len(s) : Ch(s, i) \notin Whitespace}
    IN  IF keep = {} THEN ""
        ELSE SubSeq(s, CHOOSE i \in keep : \A j \in keep : i <= j,
                       CHOOSE i \in keep : \A j \in keep : i >= j)

startsAt(s, i, k) == i + Len(k) - 1 <= Len(s) /\ SubSeq(s, i, i + Len(k) - 1) = k

\* k in s
contains(s, k) == \E i \in 1..(Len(s) + 1) : startsAt(s, i, k)

Min(S) == CHOOSE x \in S : \A y \in S : x <= y

\* s[i:], the text from index i on
from(s, i) == IF i > Len(s) THEN "" ELSE SubSeq(s, i, Len(s))

\* s[i:j], the text from index i up to but not including index j
between(s, i, j) == IF i >= j THEN "" ELSE SubSeq(s, i, j - 1)

RECURSIVE replaceFrom(_, _, _, _)
\* the replacement of the occurrences of old that start at index i or later
replaceFrom(s, i, old, new) ==
    LET starts == {j \in i..Len(s) : startsAt(s, j, old)}
    IN  IF starts = {} THEN from(s, i)
        ELSE between(s, i, Min(starts)) \o new
             \o replaceFrom(s, Min(starts) + Len(old), old, new)

\* s.replace(old, new), old non-empty: leftmost non-overlapping occurrences
replace(s, old, new) == replaceFrom(s, 1, old, new)

RECURSIVE join(_, _)
\* sep.join(parts)
join(sep, parts) ==
    IF parts = <<>> THEN ""
    ELSE IF Len(parts) = 1 THEN parts[1]
    ELSE parts[1] \o sep \o join(sep, Tail(parts))

(***************************************************************************)
(* main.py _signature                                                      *)
(***************************************************************************)
\* where a match of r"/__w/[^\\s]+" that starts at index j ends: the class [^\\s]
\* is any character but a backslash and the letter s
workdirEnd(s, j) ==
    LET stops == {k \in (j + 5)..Len(s) : Ch(s, k) \in {"\\", "s"}}
    IN  IF stops = {} THEN Len(s) + 1 ELSE Min(stops)

RECURSIVE subWorkdir(_, _)
\* re.sub(r"/__w/[^\\s]+", "<WORKDIR>", s) from index i on
subWorkdir(s, i) ==
    LET starts == {j \in i..Len(s) : startsAt(s, j, "/__w/") /\ workdirEnd(s, j) > j + 5}
    IN  IF starts = {} THEN from(s, i)
        ELSE between(s, i, Min(starts)) \o "<WORKDIR>"
             \o subWorkdir(s, workdirEnd(s, Min(starts)))

\* where a match of r":\\d+" that starts at index j ends: after the colon and the
\* backslash the pattern repeats the letter d
lineNoEnd(s, j) ==
    LET stops == {k \in (j + 2)..Len(s) : Ch(s, k) # "d"}
    IN  IF stops = {} THEN Len(s) + 1 ELSE Min(stops)

RECURSIVE subLineNo(_, _)
\* re.sub(r":\\d+", ":", s) from index i on
subLineNo(s, i) ==
    LET starts == {j \in i..Len(s) : startsAt(s, j, ":\\") /\ lineNoEnd(s, j) > j + 2}
    IN  IF starts = {} THEN from(s, i)
        ELSE between(s, i, Min(starts)) \o ":" \o subLineNo(s, lineNoEnd(s, Min(starts)))

keywords == <<"timeout", "tocontaintext", "element(s) not found",
              "waiting for locator", "click", "authentication", "401">>

RECURSIVE tagKeywords(_, _)
\* for k in keywords: t = t.replace(k, f"[{k}]")
tagKeywords(s, n) ==
    IF n > Len(keywords) THEN s
    ELSE tagKeywords(replace(s, keywords[n], "[" \o keywords[n] \o "]"), n + 1)

\* text is a str or None: `text or ""`
_signature(text) ==
    LET t1 == subWorkdir(or(text, Str("")).v, 1)
        t2 == subLineNo(t1, 1)
        t3 == lower(t2)
        t4 == strip(tagKeywords(t3, 1))
    IN  IF t4 # "" THEN t4 ELSE "[unknown]"

(***************************************************************************)
(* sorted() of strings: Python compares str by code point                  *)
(***************************************************************************)
\* the characters of the modelled keys, in code-point order
CodePoints == "0123456789ABCDEFGHIJKLMNOPQRSTUVWXYZ_abcdefghijklmnopqrstuvwxyz"

\* the rank of ord(c)
ord(c) == CHOOSE i \in 1..Len(CodePoints) : Ch(CodePoints, i) = c

\* a < b on str, both read from index i on: the first place where they differ
\* decides, and a proper prefix is smaller
strLessFrom(a, b, i) ==
    LET differ == {k \in i..(IF Len(a) < Len(b) THEN Len(a) ELSE Len(b)) : Ch(a, k) # Ch(b, k)}
    IN  IF differ = {} THEN Len(a) < Len(b)
        ELSE ord(Ch(a, Min(differ))) < ord(Ch(b, Min(differ)))

\* a < b on str
strLess(a, b) == strLessFrom(a, b, 1)

RECURSIVE sorted(_)
\* sorted(S) of a collection of distinct strings
sorted(S) ==
    IF S = {} THEN <<>>
    ELSE LET m == CHOOSE x \in S : \A y \in S : ~strLess(y, x)
         IN  <<m>> \o sorted(S \ {m})

(***************************************************************************)
(* main.py _normalize_results                                              *)
(***************************************************************************)
\* all results of a spec, in the order of `for t in tests: for r in results`
resultsOf(spec) ==
    LET tests == items(get(spec, "tests"))
    IN  Concat([i \in 1..Len(tests) |-> items(get(tests[i], "results"))])

\* (r.get("status") or "").lower()
statusLower(r) == lower(or(get(r, "status"), Str("")).v)

\* the message taken from one failed result (None when there is none)
messageOf(r) ==
    LET fromError == IF isDict(get(r, "error"))
                     THEN or(get(get(r, "error"), "message"), get(get(r, "error"), "stack"))
                     ELSE None
    IN  IF ~truthy(fromError) /\ truthy(get(r, "errors"))
        THEN get(get(r, "errors").v[1], "message")
        ELSE fromError

\* msgs: the stripped messages of the failed results of a spec
failMessages(spec) ==
    LET rs == resultsOf(spec)
        failed == SelectSeq(rs, LAMBDA r : statusLower(r) = "failed" /\ truthy(messageOf(r)))
    IN  [i \in 1..Len(failed) |-> Str(strip(messageOf(failed[i]).v))]

\* the failure dict built for a spec; "messages" is set only when msgs is non-empty
failOf(spec) ==
    LET msgs == failMessages(spec)
    IN  IF msgs # <<>>
        THEN Dict([title |-> get(spec, "title"), file |-> get(spec, "file"),
                   line |-> get(spec, "line"), messages |-> List(msgs)])
        ELSE Dict([title |-> get(spec, "title"), file |-> get(spec, "file"),
                   line |-> get(spec, "line")])

\* branch 0: a spec is recorded when its ok is the constant False
recordedUnderStats(spec) == get(spec, "ok") = Bool(FALSE)

RECURSIVE walkStats(_)
\* branch 0 walk(node): the failures appended for node, its specs first
walkStats(node) ==
    LET specs == items(get(node, "specs"))
        kids == items(get(node, "suites"))
        here == SelectSeq(specs, recordedUnderStats)
    IN  [i \in 1..Len(here) |-> failOf(here[i])]
        \o Concat([i \in 1..Len(kids) |-> walkStats(kids[i])])

\* statsTotal with the flaky counter left out, as the analyzer sums
statsTotalWithoutFlaky(st) ==
    int(or(get(st, "expected"), Num(0))) + int(or(get(st, "unexpected"), Num(0)))
    + int(or(get(st, "skipped"), Num(0)))

\* total of branch 0
statsTotal(st) ==
    int(or(get(st, "expected"), Num(0))) + int(or(get(st, "unexpected"), Num(0)))
    + int(or(get(st, "flaky"), Num(0))) + int(or(get(st, "skipped"), Num(0)))

\* branch 0: Playwright stats
normalizeStats(doc) ==
    LET st == get(doc, "stats")
        expected == int(or(get(st, "expected"), Num(0)))
        unexpected == int(or(get(st, "unexpected"), Num(0)))
        tops == items(get(doc, "suites"))
    IN  [kind |-> "ok",
         summary |-> [total |-> statsTotal(st), passed |-> expected, failed |-> unexpected],
         failures |-> Concat([i \in 1..Len(tops) |-> walkStats(tops[i])])]

\* failed of branch 1
summaryFailed(s, total, passed) ==
    int(or(or(get(s, "failed"), get(s, "failures")), Num(max(total - passed, 0))))

\* branch 1: explicit summary
normalizeSummary(doc) ==
    LET s == get(doc, "summary")
        total == int(or(get(s, "total"), Num(0)))
        passed == int(or(get(s, "passed"), Num(0)))
        fl == or(or(or(get(doc, "failures"), get(doc, "failed")), get(doc, "failedTests")),
                 List(<<>>))
    IN  [kind |-> "ok",
         summary |-> [total |-> total, passed |-> passed,
                      failed |-> summaryFailed(s, total, passed)],
         failures |-> fl.v]

\* tests = raw.get("tests") or raw.get("specs") or raw.get("results") or raw.get("cases") or []
flatTests(doc) ==
    or(or(or(or(get(doc, "tests"), get(doc, "specs")), get(doc, "results")),
          get(doc, "cases")), List(<<>>))

\* status_of without the call of lower()
status_ofCaseSensitive(t) ==
    or(or(or(or(get(t, "status"), get(t, "outcome")), get(t, "state")),
          get(t, "result")), Str("")).v

\* status_of(t)
status_of(t) ==
    lower(or(or(or(or(get(t, "status"), get(t, "outcome")), get(t, "state")),
                get(t, "result")), Str("")).v)

PassWords == {"passed", "ok", "success", "succeeded", "expected"}
FailWords == {"failed", "fail", "broken", "error", "unexpected"}

isFailBucket(t) == status_of(t) \in FailWords
isPassBucket(t) == status_of(t) \in PassWords

\* branch 2: flat list
normalizeFlat(doc) ==
    LET tests == flatTests(doc).v
        failures == get(doc, "failures")
    IN  [kind |-> "ok",
         summary |-> [total |-> Len(tests),
                      passed |-> Len(SelectSeq(tests, isPassBucket)),
                      failed |-> Len(SelectSeq(tests, isFailBucket))],
         failures |-> IF isList(failures) THEN failures.v
                      ELSE SelectSeq(tests, isFailBucket)]

\* spec_ok with the last `return False` turned into `return True`
spec_okDefaultTrue(spec) ==
    IF get(spec, "ok") = Bool(TRUE) THEN TRUE
    ELSE IF get(spec, "ok") = Bool(FALSE) THEN FALSE
    ELSE LET rs == resultsOf(spec)
         IN  ~\E i \in 1..Len(rs) : statusLower(rs[i]) = "failed"

\* spec_ok(spec)
spec_ok(spec) ==
    IF get(spec, "ok") = Bool(TRUE) THEN TRUE
    ELSE IF get(spec, "ok") = Bool(FALSE) THEN FALSE
    ELSE LET rs == resultsOf(spec)
             has_fail == \E i \in 1..Len(rs) : statusLower(rs[i]) = "failed"
             has_pass == \E i \in 1..Len(rs) : statusLower(rs[i]) = "passed"
         IN  IF has_fail THEN FALSE ELSE has_pass

RECURSIVE walkSuites(_)
\* branch 3 walk(node): what node adds to total_specs, passed_specs, failed_specs
\* and failures
walkSuites(node) ==
    LET specs == items(get(node, "specs"))
        kids == items(get(node, "suites"))
        sub == [i \in 1..Len(kids) |-> walkSuites(kids[i])]
        bad == SelectSeq(specs, LAMBDA sp : ~spec_ok(sp))
    IN  [total |-> Len(specs) + Sum([i \in 1..Len(sub) |-> sub[i].total]),
         passed |-> Len(SelectSeq(specs, spec_ok)) + Sum([i \in 1..Len(sub) |-> sub[i].passed]),
         failed |-> Len(bad) + Sum([i \in 1..Len(sub) |-> sub[i].failed]),
         failures |-> [i \in 1..Len(bad) |-> failOf(bad[i])]
                      \o Concat([i \in 1..Len(sub) |-> sub[i].failures])]

\* branch 3: nested suites
normalizeSuites(doc) ==
    LET tops == get(doc, "suites").v
        sub == [i \in 1..Len(tops) |-> walkSuites(tops[i])]
    IN  [kind |-> "ok",
         summary |-> [total |-> Sum([i \in 1..Len(sub) |-> sub[i].total]),
                      passed |-> Sum([i \in 1..Len(sub) |-> sub[i].passed]),
                      failed |-> Sum([i \in 1..Len(sub) |-> sub[i].failed])],
         failures |-> Concat([i \in 1..Len(sub) |-> sub[i].failures])]

\* top_keys without sorted(): here the keys in descending order
topKeysUnsorted(doc) ==
    LET ks == sorted(DOMAIN doc.v)
    IN  [i \in 1..Len(ks) |-> ks[Len(ks) + 1 - i]]

\* top_keys
topKeys(doc) == sorted(DOMAIN doc.v)

\* branch 4: raise KeyError(...)
normalizeError(doc) ==
    [kind |-> "KeyError",
     message |-> "Could not derive summary; top-level keys: " \o join(", ", topKeys(doc))]

\* shapeOf with the `summary` test placed before the `stats` test
shapeOfSummaryFirst(doc) ==
    IF isDict(get(doc, "summary")) THEN "summary"
    ELSE IF isDict(get(doc, "stats")) THEN "stats"
    ELSE IF isList(flatTests(doc)) /\ truthy(flatTests(doc)) THEN "flat"
    ELSE IF isList(get(doc, "suites")) THEN "suites"
    ELSE "none"

\* which branch the chain of `if`s takes
shapeOf(doc) ==
    IF isDict(get(doc, "stats")) THEN "stats"
    ELSE IF isDict(get(doc, "summary")) THEN "summary"
    ELSE IF isList(flatTests(doc)) /\ truthy(flatTests(doc)) THEN "flat"
    ELSE IF isList(get(doc, "suites")) THEN "suites"
    ELSE "none"

_normalize_results(doc) ==
    CASE shapeOf(doc) = "stats" -> normalizeStats(doc)
      [] shapeOf(doc) = "summary" -> normalizeSummary(doc)
      [] shapeOf(doc) = "flat" -> normalizeFlat(doc)
      [] shapeOf(doc) = "suites" -> normalizeSuites(doc)
      [] shapeOf(doc) = "none" -> normalizeError(doc)

(***************************************************************************)
(* main.py _cluster_failures                                               *)
(***************************************************************************)
\* base: the text whose signature groups f
baseOf(f) ==
    LET msgs == IF isDict(f) THEN getDefault(f, "messages", List(<<>>)).v ELSE <<f>>
        kept == SelectSeq(msgs, truthy)
        joined == Str(join("\n", [i \in 1..Len(kept) |-> kept[i].v]))
    IN  IF truthy(joined) THEN joined ELSE getDefault(f, "title", Str("unknown"))

exampleOf(f) ==
    [file |-> getDefault(f, "file", Str("?")), line |-> getDefault(f, "line", Str("?")),
     title |-> getDefault(f, "title", Str("(no title)"))]

RECURSIVE groupFrom(_, _, _)
\* the loop over failures: groups in first-seen order (dict insertion order)
groupFrom(fs, i, groups) ==
    IF i > Len(fs) THEN groups
    ELSE LET f == fs[i]
             sig == _signature(baseOf(f))
             at == {j \in 1..Len(groups) : groups[j].sig = sig}
             ex == IF isDict(f) THEN <<exampleOf(f)>> ELSE <<>>
         IN  IF at = {}
             THEN groupFrom(fs, i + 1,
                            Append(groups, [sig |-> sig, count |-> 1, examples |-> ex]))
             ELSE LET j == CHOOSE j \in at : TRUE
                  IN  groupFrom(fs, i + 1,
                                [groups EXCEPT ![j] = [sig |-> sig, count |-> @.count + 1,
                                                       examples |-> @.examples \o ex]])

RECURSIVE insertByCountBeforeTies(_, _)
\* a sort by -count that is not stable: g placed before the groups of equal count
insertByCountBeforeTies(sortedGroups, g) ==
    IF sortedGroups = <<>> THEN <<g>>
    ELSE IF Head(sortedGroups).count > g.count
         THEN <<Head(sortedGroups)>> \o insertByCountBeforeTies(Tail(sortedGroups), g)
         ELSE <<g>> \o sortedGroups

RECURSIVE insertByCount(_, _)
\* g placed after every group whose count is not smaller (a stable sort by -count)
insertByCount(sortedGroups, g) ==
    IF sortedGroups = <<>> THEN <<g>>
    ELSE IF Head(sortedGroups).count >= g.count
         THEN <<Head(sortedGroups)>> \o insertByCount(Tail(sortedGroups), g)
         ELSE <<g>> \o sortedGroups

RECURSIVE sortByCount(_, _)
\* sorted(groups.values(), key=lambda x: -x["count"])
sortByCount(groups, i) ==
    IF i = 0 THEN <<>> ELSE insertByCount(sortByCount(groups, i - 1), groups[i])

_cluster_failures(fs) ==
    LET groups == groupFrom(fs, 1, <<>>)
    IN  sortByCount(groups, Len(groups))

(***************************************************************************)
(* main.py _format_simple.  The text is kept line by line, each line as a  *)
(* record of what it shows; the blank lines and the symbols that decorate  *)
(* the lines are not kept, and a backquote of a text is written as an      *)
(* apostrophe.                                                             *)
(***************************************************************************)
\* the human label of a signature
headOf(sig) ==
    IF contains(sig, "[timeout]") /\ contains(sig, "[waiting for locator]")
    THEN "Timeout waiting for locator"
    ELSE IF contains(sig, "[tocontaintext]") \/ contains(sig, "element(s) not found")
    THEN "Validation message not found"
    ELSE IF contains(sig, "[authentication]") \/ contains(sig, "401")
    THEN "Authentication / session issue"
    ELSE IF Len(sig) > 80 THEN between(sig, 1, 81) ELSE sig

\* where the quoted selector that opens at index b closes (0 when the quote that
\* follows is not followed by a parenthesis, or nothing is quoted)
selectorEnd(sig, b) ==
    LET quotes == {k \in b..Len(sig) : Ch(sig, k) = "'"}
    IN  IF quotes = {} THEN 0
        ELSE IF Min(quotes) > b /\ startsAt(sig, Min(quotes), "')") THEN Min(quotes) ELSE 0

\* m = re.search(r"\[waiting for locator\]\('([^']+)'\)", sig); f' {m.group(1)}' or ""
selectorOf(sig) ==
    LET open == "[waiting for locator]('"
        starts == {j \in 1..Len(sig) :
                     startsAt(sig, j, open) /\ selectorEnd(sig, j + Len(open)) # 0}
    IN  IF starts = {} THEN ""
        ELSE " " \o between(sig, Min(starts) + Len(open),
                            selectorEnd(sig, Min(starts) + Len(open)))

\* seq[:n] for n >= 0
prefix(seq, n) == SubSeq(seq, 1, IF n < Len(seq) THEN n ELSE Len(seq))

\* the lines of the i-th cluster: its label, its first examples, what is left
issueLines(c, i, max_examples) ==
    <<[kind |-> "issue", index |-> i, head |-> headOf(c.sig), selector |-> selectorOf(c.sig),
       count |-> c.count]>>
    \o [n \in 1..Len(prefix(c.examples, max_examples)) |->
            [kind |-> "example", file |-> c.examples[n].file, line |-> c.examples[n].line,
             title |-> c.examples[n].title]]
    \o (IF Len(c.examples) > max_examples
        THEN <<[kind |-> "more", n |-> Len(c.examples) - max_examples]>> ELSE <<>>)

TipWait ==
    "Wait for elements before interacting: 'await expect(locator).toBeVisible();' then 'locator.click()'."
TipAssert ==
    "Assert after the UI renders: 'await expect(page.locator('.alert-danger')).toBeVisible()' before 'toContainText'."

\* the tips a signature asks for
tipsOfSig(sig) ==
    (IF contains(sig, "[timeout]")
        /\ (contains(sig, "[click]") \/ contains(sig, "[waiting for locator]"))
     THEN {TipWait} ELSE {})
    \cup
    (IF contains(sig, "[tocontaintext]") \/ contains(sig, "element(s) not found")
        \/ contains(sig, "[waiting for locator]")
     THEN {TipAssert} ELSE {})

\* tips = sorted(set(tips))
tipsOf(clusters_) ==
    sorted(UNION {tipsOfSig(clusters_[i].sig) : i \in 1..Len(clusters_)})

_format_simple(summary, clusters_, max_examples) ==
    LET tips == tipsOf(clusters_)
    IN  <<[kind |-> "summary", passed |-> summary.passed, total |-> summary.total,
           failed |-> summary.failed]>>
        \o (IF clusters_ = <<>> THEN <<>>
            ELSE <<[kind |-> "title", text |-> "Top issues"]>>
                 \o Concat([i \in 1..Len(clusters_) |->
                              issueLines(clusters_[i], i, max_examples)]))
        \o (IF tips = <<>> THEN <<>>
            ELSE <<[kind |-> "title", text |-> "Next steps"]>>
                 \o [n \in 1..Len(tips) |-> [kind |-> "tip", text |-> tips[n]]])

(***************************************************************************)
(* main.py _print_pretty_summary, kept line by line in the same way        *)
(***************************************************************************)
\* "\n".join(msgs) if msgs else f.get("title", "unknown")
prettyBaseOf(f) ==
    LET msgs == IF isDict(f) THEN getDefault(f, "messages", List(<<>>)) ELSE List(<<f>>)
    IN  IF truthy(msgs) THEN Str(join("\n", [i \in 1..Len(msgs.v) |-> msgs.v[i].v]))
        ELSE getDefault(f, "title", Str("unknown"))

RECURSIVE prettyGroupFrom(_, _, _)
\* the loop over failures: groups in first-seen order (dict insertion order)
prettyGroupFrom(fs, i, groups) ==
    IF i > Len(fs) THEN groups
    ELSE LET f == fs[i]
             sig == _signature(prettyBaseOf(f))
             at == {j \in 1..Len(groups) : groups[j].sig = sig}
             ex == IF isDict(f) THEN <<exampleOf(f)>> ELSE <<>>
         IN  IF at = {}
             THEN prettyGroupFrom(fs, i + 1,
                                  Append(groups, [sig |-> sig, count |-> 1, examples |-> ex]))
             ELSE LET j == CHOOSE j \in at : TRUE
                  IN  prettyGroupFrom(fs, i + 1,
                                      [groups EXCEPT ![j] = [sig |-> sig, count |-> @.count + 1,
                                                             examples |-> @.examples \o ex]])

\* the lines of a group: its count and signature, then at most five examples
clusterLines(g) ==
    <<[kind |-> "cluster", count |-> g.count, sig |-> g.sig]>>
    \o [n \in 1..Len(prefix(g.examples, 5)) |->
            [kind |-> "example", file |-> g.examples[n].file, line |-> g.examples[n].line,
             title |-> g.examples[n].title]]

SuggestWaits ==
    "Improve waits: prefer 'locator.click()' after 'await expect(locator).toBeVisible()'; add route/network waits where needed."
SuggestSelectors ==
    "Verify selectors and UI state; ensure error containers render before assertions (e.g. wait for '.alert-danger')."
SuggestCredentials ==
    "Check test credentials/seed data and session clearing between tests."

\* the suggestions a signature asks for
suggestionsOfSig(sig) ==
    (IF contains(sig, "[timeout]")
        /\ (contains(sig, "[click]") \/ contains(sig, "[waiting for locator]"))
     THEN {SuggestWaits} ELSE {})
    \cup
    (IF contains(sig, "[tocontaintext]") \/ contains(sig, "element(s) not found")
        \/ contains(sig, "[waiting for locator]")
     THEN {SuggestSelectors} ELSE {})
    \cup
    (IF contains(sig, "authentication") \/ contains(sig, "401")
     THEN {SuggestCredentials} ELSE {})

\* the set built over groups.keys(), then sorted(suggestions)
suggestionsOf(groups) ==
    sorted(UNION {suggestionsOfSig(groups[i].sig) : i \in 1..Len(groups)})

_print_pretty_summary(summary, failures) ==
    LET groups == prettyGroupFrom(failures, 1, <<>>)
        ordered == sortByCount(groups, Len(groups))
        suggestions == suggestionsOf(groups)
    IN  <<[kind |-> "summary", passed |-> summary.passed, total |-> summary.total,
           failed |-> summary.failed]>>
        \o (IF groups = <<>> THEN <<>>
            ELSE <<[kind |-> "title", text |-> "Failure Clusters"]>>
                 \o Concat([i \in 1..Len(ordered) |-> clusterLines(ordered[i])]))
        \o (IF suggestions = <<>> THEN <<>>
            ELSE <<[kind |-> "title", text |-> "Suggested Next Steps"]>>
                 \o [n \in 1..Len(suggestions) |-> [kind |-> "tip", text |-> suggestions[n]]])

(***************************************************************************)
(* analyzer.py Analyzer._stats_from_payload                                *)
(***************************************************************************)
\* s = data.get("stats", {}) or {}
payloadStats(data) == or(getDefault(data, "stats", EmptyDict), EmptyDict)

StatsKeys == {"expected", "skipped", "unexpected", "flaky"}

\* _stats_from_payload with the arithmetic of _normalize_results
_stats_from_payloadAsNormalizer(data) ==
    LET s == payloadStats(data)
        expected == int(getDefault(s, "expected", Num(0)))
        skipped == int(getDefault(s, "skipped", Num(0)))
        unexpected == int(getDefault(s, "unexpected", Num(0)))
        flaky == int(getDefault(s, "flaky", Num(0)))
    IN  IF ~isDict(s) THEN [kind |-> "AttributeError"]
        ELSE IF \E k \in StatsKeys : getDefault(s, k, Num(0)).t \notin {"int", "bool"}
        THEN [kind |-> "TypeError"]
        ELSE [kind |-> "ok",
              stats |-> [total |-> expected + unexpected + flaky + skipped,
                         passed |-> expected,
                         failed |-> unexpected,
                         skipped |-> skipped,
                         flaky |-> flaky]]

_stats_from_payload(data) ==
    LET s == payloadStats(data)
        expected == int(getDefault(s, "expected", Num(0)))
        skipped == int(getDefault(s, "skipped", Num(0)))
        unexpected == int(getDefault(s, "unexpected", Num(0)))
        flaky == int(getDefault(s, "flaky", Num(0)))
    IN  IF ~isDict(s) THEN [kind |-> "AttributeError"]
        ELSE IF \E k \in StatsKeys : getDefault(s, k, Num(0)).t \notin {"int", "bool"}
        THEN [kind |-> "TypeError"]
        ELSE [kind |-> "ok",
              stats |-> [total |-> expected + unexpected + skipped,
                         passed |-> max(expected - skipped, 0),
                         failed |-> unexpected,
                         skipped |-> skipped,
                         flaky |-> flaky]]

(***************************************************************************)
(* analyzer.py _compact, Analyzer._signature, Analyzer._collect_failures,  *)
(* Analyzer._summarize_patterns, Analyzer._extract_ci_meta                 *)
(***************************************************************************)
\* where the run of whitespace that holds index j ends
spaceEnd(s, j) ==
    LET stops == {k \in j..Len(s) : Ch(s, k) \notin Whitespace}
    IN  IF stops = {} THEN Len(s) + 1 ELSE Min(stops)

\* the newlines a match of r"\s+\n" that starts at index j may end with
newlinesAfter(s, j) == {k \in (j + 1)..(spaceEnd(s, j) - 1) : Ch(s, k) = "\n"}

RECURSIVE subSpaceNewline(_, _)
\* re.sub(r"\s+\n", "\n", s) from index i on
subSpaceNewline(s, i) ==
    LET starts == {j \in i..Len(s) : Ch(s, j) \in Whitespace /\ newlinesAfter(s, j) # {}}
        last == CHOOSE k \in newlinesAfter(s, Min(starts)) :
                    \A l \in newlinesAfter(s, Min(starts)) : l <= k
    IN  IF starts = {} THEN from(s, i)
        ELSE between(s, i, Min(starts)) \o "\n" \o subSpaceNewline(s, last + 1)

\* where the run of newlines that holds index j ends
newlinesEnd(s, j) ==
    LET stops == {k \in j..Len(s) : Ch(s, k) # "\n"}
    IN  IF stops = {} THEN Len(s) + 1 ELSE Min(stops)

RECURSIVE subBlankLines(_, _)
\* re.sub(r"\n{3,}", "\n\n", s) from index i on
subBlankLines(s, i) ==
    LET starts == {j \in i..Len(s) : startsAt(s, j, "\n\n\n")}
    IN  IF starts = {} THEN from(s, i)
        ELSE between(s, i, Min(starts)) \o "\n\n"
             \o subBlankLines(s, newlinesEnd(s, Min(starts)))

\* msg is a str or None.  The texts of the model hold no escape character, so the
\* removal of the colour codes leaves them as they are; the ellipsis that ends a
\* cut text is written as three dots.
_compact(msg) ==
    IF ~truthy(msg) THEN ""
    ELSE LET m == subBlankLines(subSpaceNewline(msg.v, 1), 1)
         IN  IF Len(m) > 900 THEN between(m, 1, 900) \o "..." ELSE m

\* Analyzer._signature: msg is a str or None
Analyzer_signature(msg) ==
    LET m == or(msg, Str("")).v
        m_low == lower(m)
    IN  IF contains(m, "locator('.alert-danger')") \/ contains(m_low, ".alert-danger")
        THEN "validation-banner-not-found (.alert-danger)"
        ELSE IF contains(m, "[data-testid=\"profile-menu\"]") \/ contains(m_low, "profile-menu")
        THEN "logout-menu-timeout ([data-testid=profile-menu])"
        ELSE IF contains(m, "toContainText") THEN "expect.toContainText timeout"
        ELSE IF contains(m_low, "timeout") /\ contains(m_low, "click") THEN "page.click timeout"
        ELSE "other"

\* the record appended for a failed result of a spec
collected(res, spec, file_here) ==
    LET err == or(get(res, "error"), EmptyDict)
        errors_list == or(get(res, "errors"), List(<<>>))
        first_err_msg == or(get(err, "message"),
                            IF truthy(errors_list) THEN get(errors_list.v[1], "message")
                            ELSE Str(""))
        attachments == items(get(res, "attachments"))
    IN  [suiteFile |-> file_here,
         specFile |-> or(get(spec, "file"), file_here),
         title |-> get(spec, "title"),
         workerIndex |-> get(res, "workerIndex"),
         retry |-> get(res, "retry"),
         duration_ms |-> get(res, "duration"),
         message |-> _compact(first_err_msg),
         shortSignature |-> Analyzer_signature(first_err_msg),
         attachments |-> SelectSeq([n \in 1..Len(attachments) |-> get(attachments[n], "path")],
                                   truthy),
         errorLocation |-> or(get(res, "errorLocation"), get(err, "location"))]

\* the failed results of a spec, test by test
collectSpec(spec, file_here) ==
    LET tests == getDefault(spec, "tests", List(<<>>)).v
        failedOf(t) == SelectSeq(getDefault(t, "results", List(<<>>)).v,
                                 LAMBDA res : lower(or(get(res, "status"), Str("")).v) = "failed")
    IN  Concat([n \in 1..Len(tests) |->
                  [k \in 1..Len(failedOf(tests[n])) |->
                      collected(failedOf(tests[n])[k], spec, file_here)]])

RECURSIVE walk_suites(_, _)
\* suites is a list or None; the specs of a suite, then its nested suites
walk_suites(suites, file_hint) ==
    LET list == items(suites)
        file_here(suite) == or(get(suite, "file"), file_hint)
        specs(suite) == getDefault(suite, "specs", List(<<>>)).v
    IN  Concat([n \in 1..Len(list) |->
                  Concat([k \in 1..Len(specs(list[n])) |->
                            collectSpec(specs(list[n])[k], file_here(list[n]))])
                  \o (IF truthy(get(list[n], "suites"))
                      THEN walk_suites(list[n].v.suites, file_here(list[n])) ELSE <<>>)])

_collect_failures(data) == walk_suites(getDefault(data, "suites", List(<<>>)), None)

RECURSIVE bucketsFrom(_, _, _)
\* buckets[f["shortSignature"]].append(f): buckets in first-seen order
bucketsFrom(fs, i, buckets) ==
    IF i > Len(fs) THEN buckets
    ELSE LET at == {j \in 1..Len(buckets) : buckets[j].sig = fs[i].shortSignature}
         IN  IF at = {}
             THEN bucketsFrom(fs, i + 1,
                              Append(buckets, [sig |-> fs[i].shortSignature, of |-> <<fs[i]>>]))
             ELSE LET j == CHOOSE j \in at : TRUE
                  IN  bucketsFrom(fs, i + 1, [buckets EXCEPT ![j].of = Append(@, fs[i])])

\* counts, top (sorted by count, largest first, ties in first-seen order) and the
\* first two messages of every bucket
_summarize_patterns(failures) ==
    LET buckets == bucketsFrom(failures, 1, <<>>)
        counts == [n \in 1..Len(buckets) |-> [sig |-> buckets[n].sig,
                                              count |-> Len(buckets[n].of)]]
    IN  [counts |-> counts,
         top |-> sortByCount(counts, Len(counts)),
         samples |-> [n \in 1..Len(buckets) |->
                        [sig |-> buckets[n].sig,
                         messages |-> [k \in 1..Len(prefix(buckets[n].of, 2)) |->
                                          buckets[n].of[k].message]]]]

_extract_ci_meta(data) ==
    LET cfg == or(getDefault(data, "config", EmptyDict), EmptyDict)
        meta == or(get(or(get(cfg, "metadata"), EmptyDict), "ci"), EmptyDict)
        projects == or(get(cfg, "projects"), List(<<EmptyDict>>))
        st == or(get(data, "stats"), EmptyDict)
    IN  [commitHash |-> get(meta, "commitHash"),
         commitHref |-> get(meta, "commitHref"),
         buildHref |-> get(meta, "buildHref"),
         project |-> get(projects.v[1], "name"),
         runnerVersion |-> get(cfg, "version"),
         startTime |-> get(st, "startTime"),
         duration_ms |-> get(st, "duration")]

(***************************************************************************)
(* The documents a run may be given.                                       *)
(***************************************************************************)
\* every dict with keys among `keys` and values in `vals`
DictsOver(keys, vals) == {Dict(f) : f \in UNION {[K -> vals] : K \in SUBSET keys}}

\* a counter of a report: null or a small int (or absent, see DictsOver)
Counters == {None} \cup {Num(n) : n \in 0..MaxCount}

StatsDicts == DictsOver({"expected", "unexpected", "flaky", "skipped"}, Counters)
SummaryDicts == DictsOver({"total", "passed", "failed", "failures"}, Counters)

\* the end-to-end example of the specification, section 8
ExampleStats == Dict([expected |-> Num(8), unexpected |-> Num(2), flaky |-> Num(1),
                      skipped |-> Num(0)])

\* results of one run of a test
RPass == Dict([status |-> Str("passed")])
RFailMessage == Dict([status |-> Str("failed"),
                      error |-> Dict([message |-> Str(" 401 Unauthorized\n")])])
RFailStack == Dict([status |-> Str("Failed"),
                    error |-> Dict([stack |-> Str("Err /__w/a/tests/a.ts:12")])])
RFailErrors == Dict([status |-> Str("failed"), error |-> None,
                     errors |-> List(<<Dict([message |-> Str("click timeout")])>>)])
RFailBare == Dict([status |-> Str("FAILED")])
RSkipped == Dict([status |-> Str("skipped")])
Results == {RPass, RFailMessage, RFailStack, RFailErrors, RFailBare, RSkipped}

ResultLists(n) == UNION {[1..k -> Results] : k \in 0..n}

Test(rs) == Dict([results |-> List(rs)])

\* the `tests` of a spec: absent, one test with up to MaxResults results (retries),
\* or two tests with one result each
TestsParts ==
    {<<>>}
    \cup {"tests" :> List(<<Test(rs)>>) : rs \in ResultLists(MaxResults)}
    \cup {"tests" :> List(<<Test(<<r1>>), Test(<<r2>>)>>) : r1 \in Results, r2 \in Results}

\* the `ok` of a spec: absent or a boolean
OkParts == {<<>>, "ok" :> Bool(TRUE), "ok" :> Bool(FALSE)}

SpecKinds == {o @@ ts : o \in OkParts, ts \in TestsParts}

\* the k-th spec of a document, of kind `kind`
MkSpec(k, kind) ==
    Dict(kind @@ [title |-> Str("t" \o ToString(k)), file |-> Str("a.spec.ts"),
                  line |-> Num(10 * k)])

\* documents with one suite holding one spec of any kind
OneSpecSuites == {List(<<Dict([specs |-> List(<<MkSpec(1, kind)>>)])>>) : kind \in SpecKinds}

\* the kinds placed in the trees: a spec passing and a spec failing by inference
TreeKinds == {"tests" :> List(<<Test(<<RPass>>)>>),
              "tests" :> List(<<Test(<<RFailMessage>>)>>)}

RECURSIVE Ascending(_)
\* the elements of a set of numbers, in ascending order
Ascending(S) ==
    IF S = {} THEN <<>>
    ELSE LET m == CHOOSE x \in S : \A y \in S : x <= y
         IN  <<m>> \o Ascending(S \ {m})

RECURSIVE SuiteAt(_, _, _)
\* suite i of the forest whose suite j has parent par[j] (0: top level) and whose
\* k-th spec is of kind place[k][2] in suite place[k][1]
SuiteAt(par, place, i) ==
    LET mine == Ascending({k \in DOMAIN place : place[k][1] = i})
        kids == Ascending({j \in DOMAIN par : par[j] = i})
        specs == "specs" :> List([n \in 1..Len(mine) |-> MkSpec(mine[n], place[mine[n]][2])])
        suites == "suites" :> List([n \in 1..Len(kids) |-> SuiteAt(par, place, kids[n])])
    IN  IF kids = <<>> THEN Dict(specs) ELSE Dict(specs @@ suites)

Forest(par, place) ==
    LET tops == Ascending({j \in DOMAIN par : par[j] = 0})
    IN  List([n \in 1..Len(tops) |-> SuiteAt(par, place, tops[n])])

\* where the m specs of a forest of n suites go: spec k in suite pl[k][1], the specs
\* numbered suite by suite
Placements(n, m) ==
    {pl \in [1..m -> (1..n) \X TreeKinds] : \A k \in 1..(m - 1) : pl[k][1] <= pl[k + 1][1]}

\* every forest of at most MaxSuites suites holding at most MaxTreeSpecs specs
Forests ==
    {Forest(par, place) :
        <<par, place>> \in UNION {
            {p \in [1..n -> 0..(n - 1)] : \A i \in 1..n : p[i] < i}
            \X UNION {Placements(n, m) : m \in 0..MaxTreeSpecs}
            : n \in 0..MaxSuites}}

\* one spec in a suite nested in another: any `ok`, no tests or one result
NestedSuites ==
    {List(<<Dict([specs |-> List(<<>>),
                  suites |-> List(<<Dict([specs |-> List(<<MkSpec(1, o @@ ts)>>)])>>)])>>) :
        o \in OkParts,
        ts \in {<<>>} \cup {"tests" :> List(<<Test(<<r>>)>>) : r \in Results}}

SuitesDocs == {Dict([suites |-> su]) : su \in Forests \cup OneSpecSuites \cup NestedSuites}

StatsDocs ==
    {Dict([stats |-> st]) : st \in StatsDicts}
    \cup {Dict([stats |-> ExampleStats, suites |-> su]) : su \in OneSpecSuites \cup NestedSuites}
    \cup {Dict([stats |-> st, summary |-> sm]) :
            st \in DictsOver({"expected", "unexpected"}, Counters),
            sm \in DictsOver({"total", "passed"}, Counters)}

\* Mocha-style counters, inside `stats` or at the top level
AlternateDocs ==
    {Dict([stats |-> Dict([tests |-> Num(b + c), passes |-> Num(b), failures |-> Num(c)])]) :
        b \in 0..MaxCount, c \in 0..MaxCount}
    \cup {Dict([tests |-> Num(b + c), passes |-> Num(b), failures |-> Num(c)]) :
        b \in 0..MaxCount, c \in 0..MaxCount}

StatusWords == PassWords \cup FailWords \cup {"skipped", "Passed", "FAILED", "", "timedOut"}

\* flat records: every status word, every status field, and the fall-through of
\* the `or` chain over an empty or null field
FlatRecords ==
    {Dict("status" :> Str(w)) : w \in StatusWords}
    \cup {Dict(k :> Str(w)) : k \in {"outcome", "state", "result"},
                              w \in {"ok", "Broken", "pending"}}
    \cup {Dict([status |-> Str(""), outcome |-> Str("failed")]),
          Dict([status |-> None, state |-> Str("success")]),
          Dict([outcome |-> Str("passed"), result |-> Str("failed")]),
          Dict([title |-> Str("no status")])}

FlatCore == {Dict([status |-> Str("passed"), title |-> Str("p")]),
             Dict([status |-> Str("FAILED"), title |-> Str("f1")]),
             Dict([status |-> Str(""), outcome |-> Str("error"), title |-> Str("f2")]),
             Dict([status |-> Str("skipped"), title |-> Str("s")])}

FlatLists == UNION {[1..n -> FlatCore] : n \in 0..MaxList}

ExplicitFailure == Dict([title |-> Str("explicit"), messages |-> List(<<Str("boom:7")>>)])

FlatDocs ==
    {Dict([tests |-> List(<<r>>)]) : r \in FlatRecords}
    \cup {Dict([tests |-> List(l)]) : l \in FlatLists}
    \cup {Dict(k :> List(<<r1, r2>>)) :
            k \in {"specs", "results", "cases"}, r1 \in FlatCore, r2 \in FlatCore}
    \cup {Dict([tests |-> first, cases |-> List(<<r1, r2>>)]) :
            first \in {None, List(<<>>), Num(5)}, r1 \in FlatCore, r2 \in FlatCore}
    \cup {Dict([tests |-> List(<<r1>>), specs |-> List(<<r2>>)]) :
            r1 \in FlatCore, r2 \in FlatCore}
    \cup {Dict([tests |-> List(l), failures |-> fv]) :
            l \in FlatLists,
            fv \in {None, Num(0), List(<<>>), List(<<ExplicitFailure>>)}}
    \cup {Dict([results |-> List(l), suites |-> List(<<>>)]) : l \in FlatLists}

\* documents of no recognised shape: any keys among these, under either valuation
UnknownKeys == {"foo", "bar", "Zeta", "stats", "summary", "tests", "suites"}
UnknownValues ==
    {[foo |-> Num(1), bar |-> Num(2), Zeta |-> Str("z"), stats |-> None,
      summary |-> Str("all good"), tests |-> List(<<>>), suites |-> None],
     [foo |-> None, bar |-> List(<<>>), Zeta |-> Num(0), stats |-> Num(3),
      summary |-> List(<<>>), tests |-> Num(5), suites |-> EmptyDict]}
UnknownDocs ==
    {Dict([k \in K |-> val[k]]) : K \in SUBSET UnknownKeys, val \in UnknownValues}

\* failure messages that differ only in the working directory and the line number
Dirs == {"a", "b"}
LineNumbers == {"7", "12"}
PathText(dir, line) == "Err /__w/" \o dir \o "/tests/a.ts:" \o line
BoomText(dir, line) == "boom:" \o line

MessageTexts ==
    {PathText("a", "7"), PathText("b", "7"), BoomText("a", "7"), BoomText("a", "12")}

FailureInputs ==
    {Dict([title |-> Str("login"), file |-> Str("a.spec.ts"), line |-> Num(10),
           messages |-> List(<<Str(m)>>)]) : m \in MessageTexts}
    \cup {Dict([title |-> Str("Timeout on click")])}

FailureLists == UNION {[1..n -> FailureInputs] : n \in 0..MaxFailures}

\* failures whose signature asks for a label, a selector or a hint, and failures
\* with several messages, empty messages, an empty title or none
HintedInputs ==
    {Dict([title |-> Str("login"), file |-> Str("a.spec.ts"), line |-> Num(10),
           messages |-> List(<<Str(m)>>)]) :
        m \in {"401 Unauthorized", "Authentication failed", "click Timeout",
               "Timeout waiting for locator('#a')", "toContainText failed",
               "element(s) not found"}}
    \cup {Dict([title |-> Str("t"), messages |-> List(<<Str("a"), Str(""), Str("b")>>)]),
          Dict([title |-> Str("t"), messages |-> List(<<Str("")>>)]),
          Dict([title |-> Str(""), messages |-> List(<<>>)]),
          Dict([title |-> None]),
          EmptyDict}

HintedLists == UNION {[1..n -> HintedInputs] : n \in 0..MaxHinted}

SummaryDocs ==
    {Dict([summary |-> sm]) : sm \in SummaryDicts}
    \cup {Dict([summary |-> EmptyDict, failures |-> List(fl)]) : fl \in HintedLists}
    \cup {Dict([summary |-> EmptyDict, failures |-> List(fl)]) : fl \in FailureLists}
    \cup {Dict([summary |-> Dict([total |-> Num(2), passed |-> Num(1)]), failures |-> None,
                failed |-> f1, failedTests |-> f2]) :
            f1 \in {None, List(<<ExplicitFailure>>)},
            f2 \in {List(<<>>), List(<<Dict([title |-> Str("Timeout on click")])>>)}}

Docs == StatsDocs \cup SummaryDocs \cup AlternateDocs \cup FlatDocs \cup SuitesDocs
        \cup UnknownDocs

(***************************************************************************)
(* The runs: main.py main() and analyzer.py Analyzer.analyze_file          *)
(***************************************************************************)
Programs == {"main", "analyzer"}

NoResult == [kind |-> "none"]

Init ==
    /\ raw \in Docs
    /\ prog \in Programs
    /\ pc = "start"
    /\ result = NoResult
    /\ stats = NoResult
    /\ clusters = <<>>
    /\ out = NoResult

\* main(): summary, failures = _normalize_results(raw); an exception ends the run
Normalize ==
    /\ prog = "main"
    /\ pc = "start"
    /\ result' = _normalize_results(raw)
    /\ pc' = IF result'.kind = "ok" THEN "normalized" ELSE "raised"
    /\ UNCHANGED <<raw, prog, stats, clusters, out>>

\* main(): clusters = _cluster_failures(failures)
Cluster ==
    /\ prog = "main"
    /\ pc = "normalized"
    /\ clusters' = _cluster_failures(result.failures)
    /\ pc' = "clustered"
    /\ UNCHANGED <<raw, prog, result, stats, out>>

\* analyze_file(): stats = self._stats_from_payload(data)
StatsFromPayload ==
    /\ prog = "analyzer"
    /\ pc = "start"
    /\ stats' = _stats_from_payload(raw)
    /\ pc' = IF stats'.kind = "ok" THEN "stats" ELSE "raised"
    /\ UNCHANGED <<raw, prog, result, clusters, out>>

\* the values of --max-examples (default 2) and of --strict-fails
ExampleLimits == {0, 1, 2}

\* main(): out = _format_simple(summary, clusters, max_examples); print(out);
\* the exit status is 1 when --strict-fails is given and a test failed
Format ==
    /\ prog = "main"
    /\ pc = "clustered"
    /\ \E max_examples \in ExampleLimits :
          LET lines == _format_simple(result.summary, clusters, max_examples)
          IN  \E strict_fails \in BOOLEAN :
                 out' = [kind |-> "printed",
                         lines |-> lines,
                         status |-> IF strict_fails /\ result.summary.failed > 0 THEN 1 ELSE 0]
    /\ pc' = "printed"
    /\ UNCHANGED <<raw, prog, result, stats, clusters>>

\* _print_pretty_summary(summary, failures), applied to what the normaliser returned
PrintPretty ==
    /\ prog = "main"
    /\ pc = "normalized"
    /\ out' = [kind |-> "printed",
               lines |-> _print_pretty_summary(result.summary, result.failures)]
    /\ pc' = "pretty"
    /\ UNCHANGED <<raw, prog, result, stats, clusters>>

\* what a call of llm.generate may do: return a text or raise
Generated == {"text", "raises"}

\* analyze_file() after the stats: the failures, the patterns and the CI data are
\* computed and put in the two prompts, then llm.generate is called twice, inside
\* no try block; the result is returned only if neither call raises
Analyze ==
    /\ prog = "analyzer"
    /\ pc = "stats"
    /\ \E summary \in Generated, next_actions \in Generated :
          IF summary = "raises" \/ next_actions = "raises"
          THEN /\ out' = [kind |-> "raised",
                          by |-> IF summary = "raises" THEN "summary" ELSE "next_actions"]
               /\ pc' = "raised"
          ELSE /\ out' = LET failures == _collect_failures(raw)
                         IN  [kind |-> "returned",
                              stats |-> stats.stats,
                              failures |-> failures,
                              patterns |-> _summarize_patterns(failures),
                              ci |-> _extract_ci_meta(raw),
                              summary |-> summary,
                              next_actions |-> next_actions]
               /\ pc' = "returned"
    /\ UNCHANGED <<raw, prog, result, stats, clusters>>

Next == Normalize \/ Cluster \/ Format \/ PrintPretty \/ StatsFromPayload \/ Analyze

Spec == Init /\ [][Next]_vars

(***************************************************************************)
(* Properties.  The helpers below restate what the specification says of   *)
(* a document; they do not call the operators that model the code.         *)
(***************************************************************************)
Normalized == prog = "main" /\ pc \in {"normalized", "clustered", "printed", "pretty"}
Clustered == prog = "main" /\ pc \in {"clustered", "printed"}
NormalizeDone == prog = "main" /\ pc # "start"

HasObject(doc, k) == k \in DOMAIN doc.v /\ doc.v[k].t = "dict"

\* a counter of an object, an absent or null counter read as 0
CounterOf(d, k) == IF k \in DOMAIN d.v /\ d.v[k].t = "int" THEN d.v[k].v ELSE 0

StatsSumOf(doc) ==
    CounterOf(doc.v.stats, "expected") + CounterOf(doc.v.stats, "unexpected")
    + CounterOf(doc.v.stats, "flaky") + CounterOf(doc.v.stats, "skipped")

\* C1 as written: a document carrying both a `summary` object and a `stats` object
\* is normalised as the explicit-summary shape: total and passed are the fields of
\* `summary`.
C1_SummaryWinsOverStats ==
    (NormalizeDone /\ HasObject(raw, "summary") /\ HasObject(raw, "stats"))
        => /\ result.kind = "ok"
           /\ result.summary.total = CounterOf(raw.v.summary, "total")
           /\ result.summary.passed = CounterOf(raw.v.summary, "passed")

\* C1 amended: the `stats` object has priority.  A document carrying both a
\* `summary` object and a `stats` object is normalised from the stats counters:
\* passed = expected, failed = unexpected, total = their sum with flaky and skipped.
C1_StatsWinsOverSummary ==
    (NormalizeDone /\ HasObject(raw, "summary") /\ HasObject(raw, "stats"))
        => /\ result.kind = "ok"
           /\ result.summary.total = StatsSumOf(raw)
           /\ result.summary.passed = CounterOf(raw.v.stats, "expected")
           /\ result.summary.failed = CounterOf(raw.v.stats, "unexpected")

\* a normalised document with both objects whose two readings disagree
C1_Witness ==
    /\ Normalized /\ HasObject(raw, "summary") /\ HasObject(raw, "stats")
    /\ CounterOf(raw.v.summary, "total") = 2
    /\ CounterOf(raw.v.summary, "passed") = 2
    /\ result.summary = [total |-> 1, passed |-> 0, failed |-> 1]

\* C2: for a document whose `stats` is an object, passed = expected,
\* failed = unexpected and total = expected + unexpected + flaky + skipped, an
\* absent or null counter read as 0, whatever the overlap of the categories.
C2_StatsArithmetic ==
    (NormalizeDone /\ HasObject(raw, "stats"))
        => /\ result.kind = "ok"
           /\ result.summary.passed = CounterOf(raw.v.stats, "expected")
           /\ result.summary.failed = CounterOf(raw.v.stats, "unexpected")
           /\ result.summary.total = StatsSumOf(raw)
           /\ DOMAIN result.summary = {"total", "passed", "failed"}

\* a stats document with a null counter, an absent counter and flaky tests, whose
\* total exceeds passed + failed
C2_Witness ==
    /\ Normalized /\ HasObject(raw, "stats")
    /\ DOMAIN raw.v.stats.v = {"expected", "flaky", "skipped"}
    /\ raw.v.stats.v.skipped = None
    /\ raw.v.stats.v.flaky = Num(2)
    /\ result.summary = [total |-> 3, passed |-> 1, failed |-> 0]

RECURSIVE SpecsUnder(_)
\* the specs of a suite and of every suite nested in it (the modelled documents
\* give each spec its own title, so a set keeps them apart)
SpecsUnder(node) ==
    LET specs == IF "specs" \in DOMAIN node.v THEN node.v.specs.v ELSE <<>>
        kids == IF "suites" \in DOMAIN node.v THEN node.v.suites.v ELSE <<>>
    IN  {specs[i] : i \in 1..Len(specs)} \cup UNION {SpecsUnder(kids[i]) : i \in 1..Len(kids)}

\* the specs of the whole tree of a document with a `suites` list
SpecsOf(doc) == UNION {SpecsUnder(doc.v.suites.v[i]) : i \in 1..Len(doc.v.suites.v)}

HasSuitesList(doc) == "suites" \in DOMAIN doc.v /\ doc.v.suites.t = "list"

\* the statuses of the results nested in a spec, lower-cased
StatusesIn(spec) ==
    IF "tests" \notin DOMAIN spec.v THEN {}
    ELSE UNION {{lower(r.v.status.v) : r \in {t.v.results.v[j] : j \in 1..Len(t.v.results.v)}} :
                t \in {spec.v.tests.v[i] : i \in 1..Len(spec.v.tests.v)}}

\* the failure records that carry the title of spec
RecordsOf(spec) == {i \in 1..Len(result.failures) : get(result.failures[i], "title") = spec.v.title}

\* C3: in a document with a `stats` object and a `suites` tree, every spec without
\* an `ok` field that has a result of status failed yields exactly one failure
\* record.
C3_StatsInfersFailedSpecs ==
    (Normalized /\ HasObject(raw, "stats") /\ HasSuitesList(raw))
        => \A spec \in SpecsOf(raw) :
              ("ok" \notin DOMAIN spec.v /\ "failed" \in StatusesIn(spec))
                  => Cardinality(RecordsOf(spec)) = 1

\* how the specification orders the keys: by the number of smaller keys
KeysInOrder(K) ==
    [i \in 1..Cardinality(K) |-> CHOOSE k \in K : Cardinality({j \in K : strLess(j, k)}) = i - 1]

NonEmptyList(doc, k) == k \in DOMAIN doc.v /\ doc.v[k].t = "list" /\ doc.v[k].v # <<>>

\* no recognised shape, as C4 words it
NoShape(doc) ==
    /\ ~HasObject(doc, "stats")
    /\ ~HasObject(doc, "summary")
    /\ \A k \in {"tests", "specs", "results", "cases"} : ~NonEmptyList(doc, k)
    /\ ~HasSuitesList(doc)

\* C4: a document of no recognised shape makes _normalize_results fail with an
\* error whose message lists the top-level keys, sorted, joined by ", "; no summary
\* is returned.
C4_UnknownShapeRaises ==
    (NormalizeDone /\ NoShape(raw))
        => /\ pc = "raised"
           /\ result.kind = "KeyError"
           /\ "summary" \notin DOMAIN result
           /\ result.message = "Could not derive summary; top-level keys: "
                               \o join(", ", KeysInOrder(DOMAIN raw.v))

\* the document {"foo": 1, "bar": 2} has raised, its keys listed as "bar, foo"
C4_Witness ==
    /\ prog = "main" /\ pc = "raised"
    /\ raw = Dict([foo |-> Num(1), bar |-> Num(2)])
    /\ result.message = "Could not derive summary; top-level keys: bar, foo"

\* the single message of a failure record, "" when it has none
OnlyMessage(f) ==
    IF f.t = "dict" /\ "messages" \in DOMAIN f.v /\ Len(f.v.messages.v) = 1
    THEN f.v.messages.v[1].v ELSE ""

\* the failures differ only in the working directory of a path and in the line
\* number that ends the message
SameUpToPathAndLine(fs) ==
    \/ \A i \in 1..Len(fs) : OnlyMessage(fs[i]) \in {PathText(d, l) : d \in Dirs, l \in LineNumbers}
    \/ \A i \in 1..Len(fs) : OnlyMessage(fs[i]) \in {BoomText(d, l) : d \in Dirs, l \in LineNumbers}

\* C5: N >= 1 failures whose messages are identical but for the trailing :<digits>
\* and the working-directory path have one signature and form exactly one cluster,
\* of count N.
C5_NoiseCollapses ==
    (Clustered /\ Len(result.failures) >= 1
     /\ SameUpToPathAndLine(result.failures))
        => /\ Len(clusters) = 1
           /\ clusters[1].count = Len(result.failures)
           /\ \A i, j \in 1..Len(result.failures) :
                 _signature(Str(OnlyMessage(result.failures[i])))
                 = _signature(Str(OnlyMessage(result.failures[j])))

\* C6: in the explicit-summary shape each of total, passed and failed is the field
\* of `summary`, or 0 when that field is absent.
C6_SummaryFieldsVerbatim ==
    (Normalized /\ HasObject(raw, "summary") /\ ~HasObject(raw, "stats"))
        => /\ result.summary.total = CounterOf(raw.v.summary, "total")
           /\ result.summary.passed = CounterOf(raw.v.summary, "passed")
           /\ result.summary.failed = CounterOf(raw.v.summary, "failed")

\* the suite-tree shape: no `stats` or `summary` object, no flat list, a `suites` list
SuitesShape(doc) ==
    /\ ~HasObject(doc, "stats")
    /\ ~HasObject(doc, "summary")
    /\ \A k \in {"tests", "specs", "results", "cases"} : ~NonEmptyList(doc, k)
    /\ HasSuitesList(doc)

\* a spec passes if `ok` is true, or `ok` is absent, some result passed and none failed
ExpectPassed(spec) ==
    \/ "ok" \in DOMAIN spec.v /\ spec.v.ok = Bool(TRUE)
    \/ "ok" \notin DOMAIN spec.v /\ "passed" \in StatusesIn(spec) /\ "failed" \notin StatusesIn(spec)

\* C7: in the suite-tree shape every spec of the tree is counted once: total is the
\* number of specs, passed the number of passing specs, every other spec is counted
\* failed and has exactly one failure record, which carries its title, file and line.
C7_SuitesCountEverySpecOnce ==
    (Normalized /\ SuitesShape(raw))
        => LET all == SpecsOf(raw)
               good == {sp \in all : ExpectPassed(sp)}
           IN  /\ result.summary.total = Cardinality(all)
               /\ result.summary.passed = Cardinality(good)
               /\ result.summary.failed = Cardinality(all \ good)
               /\ result.summary.passed + result.summary.failed = result.summary.total
               /\ Len(result.failures) = Cardinality(all \ good)
               /\ \A sp \in all :
                     /\ Cardinality(RecordsOf(sp)) = IF sp \in good THEN 0 ELSE 1
                     /\ \A i \in RecordsOf(sp) :
                           /\ get(result.failures[i], "file") = sp.v.file
                           /\ get(result.failures[i], "line") = sp.v.line

\* a tree three suites deep: a passing spec in the outermost suite and, in the
\* innermost, a spec failing by inference, counted once each and one record made
C7_Witness ==
    /\ Normalized /\ SuitesShape(raw)
    /\ Len(raw.v.suites.v) = 1
    /\ "suites" \in DOMAIN raw.v.suites.v[1].v
    /\ "suites" \in DOMAIN raw.v.suites.v[1].v.suites.v[1].v
    /\ Len(raw.v.suites.v[1].v.specs.v) = 1
    /\ ExpectPassed(raw.v.suites.v[1].v.specs.v[1])
    /\ \E sp \in SpecsUnder(raw.v.suites.v[1].v.suites.v[1].v.suites.v[1]) :
          ~ExpectPassed(sp) /\ Cardinality(RecordsOf(sp)) = 1
    /\ result.summary = [total |-> 2, passed |-> 1, failed |-> 1]
    /\ Len(result.failures) = 1

StatusFields == <<"status", "outcome", "state", "result">>
ListFields == <<"tests", "specs", "results", "cases">>

\* the first field of a document, among the four, with a non-empty value (0 if none)
FirstFilled(doc, fields) ==
    LET filled == {i \in 1..Len(fields) : fields[i] \in DOMAIN doc.v /\ truthy(doc.v[fields[i]])}
    IN  IF filled = {} THEN 0 ELSE CHOOSE i \in filled : \A j \in filled : i <= j

\* the flat-list shape: no `stats` or `summary` object, and the first non-empty of
\* tests/specs/results/cases is a list
FlatShape(doc) ==
    /\ ~HasObject(doc, "stats")
    /\ ~HasObject(doc, "summary")
    /\ FirstFilled(doc, ListFields) # 0
    /\ doc.v[ListFields[FirstFilled(doc, ListFields)]].t = "list"

FlatListOf(doc) == doc.v[ListFields[FirstFilled(doc, ListFields)]].v

\* the status of a flat record: its first non-empty status field, lower-cased
WordOf(rec) ==
    IF FirstFilled(rec, StatusFields) = 0 THEN ""
    ELSE lower(rec.v[StatusFields[FirstFilled(rec, StatusFields)]].v)

InPassSet(rec) == WordOf(rec) \in {"passed", "ok", "success", "succeeded", "expected"}
InFailSet(rec) == WordOf(rec) \in {"failed", "fail", "broken", "error", "unexpected"}

\* C8: in the flat-list shape total is the length of the list, passed and failed
\* count the records of the PASS and FAIL sets, a record of neither set adds to
\* total only, and the failures are the `failures` field when it is a list,
\* otherwise the FAIL records in list order.
C8_FlatListBuckets ==
    (NormalizeDone /\ FlatShape(raw))
        => LET list == FlatListOf(raw)
           IN  /\ result.kind = "ok"
               /\ result.summary.total = Len(list)
               /\ result.summary.passed = Cardinality({i \in 1..Len(list) : InPassSet(list[i])})
               /\ result.summary.failed = Cardinality({i \in 1..Len(list) : InFailSet(list[i])})
               /\ result.summary.passed + result.summary.failed <= result.summary.total
               /\ result.failures =
                     IF "failures" \in DOMAIN raw.v /\ raw.v.failures.t = "list"
                     THEN raw.v.failures.v
                     ELSE SelectSeq(list, InFailSet)

\* a flat list with a record of neither set and two FAIL records, one found through
\* an upper-case status and one through the `outcome` field, kept in list order
C8_Witness ==
    /\ Normalized /\ FlatShape(raw)
    /\ "failures" \notin DOMAIN raw.v
    /\ result.summary.passed + result.summary.failed < result.summary.total
    /\ Len(result.failures) = 2
    /\ get(result.failures[1], "title") = Str("f2")
    /\ get(result.failures[2], "title") = Str("f1")

\* the alternate structured-stats shape: tests/passes/failures counters, in `stats`
\* or at the top level
AlternateCounters(doc) ==
    IF HasObject(doc, "stats") /\ {"tests", "passes", "failures"} \subseteq DOMAIN doc.v.stats.v
    THEN doc.v.stats
    ELSE IF {"tests", "passes", "failures"} \subseteq DOMAIN doc.v
            /\ \A k \in {"tests", "passes", "failures"} : doc.v[k].t = "int"
    THEN doc
    ELSE None

\* C9: a document of the alternate structured-stats shape is normalised to
\* total = tests, passed = passes, failed = failures.
C9_AlternateVerbatim ==
    (NormalizeDone /\ AlternateCounters(raw) # None)
        => /\ result.kind = "ok"
           /\ result.summary.total = CounterOf(AlternateCounters(raw), "tests")
           /\ result.summary.passed = CounterOf(AlternateCounters(raw), "passes")
           /\ result.summary.failed = CounterOf(AlternateCounters(raw), "failures")

FiveCounts == {"total", "passed", "failed", "skipped", "flaky"}

SigOf(f) == _signature(baseOf(f))

\* C11: the clusters are ordered by count descending, and two clusters of equal
\* count are in the order in which their signatures are first seen in the failure
\* list.
C11_CountDescendingStableTies ==
    Clustered
        => LET sigs == [k \in 1..Len(result.failures) |-> SigOf(result.failures[k])]
               first == [i \in 1..Len(clusters) |->
                           Min({k \in 1..Len(sigs) : sigs[k] = clusters[i].sig})]
           IN  /\ {clusters[i].sig : i \in 1..Len(clusters)}
                     = {sigs[k] : k \in 1..Len(sigs)}
               /\ \A i, j \in 1..Len(clusters) :
                     i < j => /\ clusters[i].sig # clusters[j].sig
                              /\ clusters[i].count >= clusters[j].count
                              /\ clusters[i].count = clusters[j].count => first[i] < first[j]

\* three failures of three signatures: the clusters tie at count 1 and keep the
\* arrival order, which is not the alphabetical one
C11_Witness ==
    /\ Clustered
    /\ Len(result.failures) = 3 /\ Len(clusters) = 3
    /\ \A i \in 1..3 : clusters[i].count = 1
    /\ clusters[1].sig = "boom:7" /\ clusters[2].sig = "boom:12"
    /\ SigOf(result.failures[1]) = "boom:7" /\ SigOf(result.failures[2]) = "boom:12"

\* the example limit when none is given
DefaultLimit == 2

\* what the specification keeps of a record as an example
SpecExample(f) ==
    [file |-> getDefault(f, "file", Str("?")), line |-> getDefault(f, "line", Str("?")),
     title |-> getDefault(f, "title", Str("(no title)"))]

\* the records of the failure list grouped under a signature, in arrival order
GroupedUnder(fs, sig) == SelectSeq(fs, LAMBDA f : SigOf(f) = sig)

\* C12: every cluster holds at most `limit` examples (2 by default), the prefix in
\* arrival order of the file, line and title of the records grouped under its
\* signature, while its count is the full number of grouped records.
C12_ExamplesBounded ==
    Clustered
        => \A i \in 1..Len(clusters) :
              LET grouped == GroupedUnder(result.failures, clusters[i].sig)
                  shown == IF Len(grouped) < DefaultLimit THEN Len(grouped) ELSE DefaultLimit
              IN  /\ clusters[i].count = Len(grouped)
                  /\ Len(clusters[i].examples) <= DefaultLimit
                  /\ clusters[i].examples = [n \in 1..shown |-> SpecExample(grouped[n])]

\* the messages of a record that are not empty
MessagesOf(f) ==
    IF "messages" \in DOMAIN f.v /\ f.v.messages.t = "list"
    THEN SelectSeq(f.v.messages.v, LAMBDA m : m.t = "str" /\ m.v # "")
    ELSE <<>>

\* the text of a record that is normalised: its non-empty messages, one per line;
\* without any, its title; "" when the title is empty or absent too
TextOf(f) ==
    IF MessagesOf(f) # <<>>
    THEN join("\n", [n \in 1..Len(MessagesOf(f)) |-> MessagesOf(f)[n].v])
    ELSE IF "title" \in DOMAIN f.v /\ f.v.title.t = "str" THEN f.v.title.v
    ELSE ""

\* the signature the specification gives a record
ExpectedSig(f) == IF TextOf(f) = "" THEN "[unknown]" ELSE _signature(Str(TextOf(f)))

\* C13: the signature of a failure record is made from its non-empty messages joined
\* by newline, else from its title, and is the literal [unknown] when the title is
\* empty or absent too.
C13_SignatureFallback ==
    Clustered
        => /\ {clusters[i].sig : i \in 1..Len(clusters)}
                 = {ExpectedSig(result.failures[k]) : k \in 1..Len(result.failures)}
           /\ \A i \in 1..Len(clusters) :
                 clusters[i].count
                 = Cardinality({k \in 1..Len(result.failures) :
                                   ExpectedSig(result.failures[k]) = clusters[i].sig})

\* the hints of a printed text, and the signatures it was printed for
HintsOf(lines) ==
    LET tips == SelectSeq(lines, LAMBDA l : l.kind = "tip")
    IN  [n \in 1..Len(tips) |-> tips[n].text]

Formatted == prog = "main" /\ pc \in {"printed", "pretty"}

SignaturesOf(fs) == {_signature(baseOf(fs[k])) : k \in 1..Len(fs)}

AsksForCredentials(sig) == contains(sig, "[authentication]") \/ contains(sig, "401")

IsCredentialsHint(text) == contains(text, "credentials") \/ contains(text, "session")

\* C14: both formatters give the check-credentials hint whenever a signature holds
\* [authentication] or 401, and their hints have no duplicates and are in ascending
\* alphabetical order.
C14_HintsBothFormatters ==
    Formatted
        => LET hints == HintsOf(out.lines)
           IN  /\ (\E sig \in SignaturesOf(result.failures) : AsksForCredentials(sig))
                     => \E n \in 1..Len(hints) : IsCredentialsHint(hints[n])
               /\ \A m, n \in 1..Len(hints) : m < n => strLess(hints[m], hints[n])

\* C15: a collaborator that fails never aborts the computation.  In every run of
\* analyze_file that computed the stats, the stats, the failures and the patterns
\* are returned to the caller, whatever the text-generation calls did.
C15_CollaboratorFailureContained ==
    (prog = "analyzer" /\ stats.kind = "ok" /\ pc \in {"returned", "raised"})
        => /\ pc = "returned"
           /\ out.kind = "returned"
           /\ out.stats = stats.stats
           /\ out.failures = _collect_failures(raw)

====
